---- MODULE Spec2Model ----
(***************************************************************************)
(* Elder Emo Tour Archive: the CSV -> DataTable page script.               *)
(*                                                                         *)
(* Two revisions of the script are modelled side by side, selected by the  *)
(* variable rev:                                                           *)
(*   "dateFilter"  src/unnamed/part_001 (search + date filters + tabs)     *)
(*   "noDate"      src/unnamed/part_000 (search + tabs, no date filters)   *)
(*                                                                         *)
(* Strings that the code compares, trims or searches are sequences of      *)
(* UTF-16 code units (naturals), so that JavaScript's string comparison    *)
(* is the lexicographic order on these sequences.                          *)
(***************************************************************************)
EXTENDS Integers, Sequences, FiniteSets, TLC

VARIABLES
    rev,          \* which revision of the script the page runs
    pc,           \* position of the async init(): fetch / text / ready / failed
    cur,          \* table whose loadCsvIntoTable call init() is awaiting
    pending,      \* the CSV body of the response init() is reading
    tbl,          \* per table: the DOM table and its DataTable widget
    res,          \* per table: the object loadCsvIntoTable returned
    globalSearch, \* value of #globalSearch
    dateFrom,     \* value of #dateFrom
    dateTo,       \* value of #dateTo
    tabActive,    \* tabs carrying the class "active"
    panelActive,  \* panels carrying the class "active"
    extSearch,    \* number of elderEmoDateFilter entries in $.fn.dataTable.ext.search
    handlers,     \* TRUE once init() has attached the event handlers
    timers,       \* callbacks queued by setTimeout(..., 0), oldest first
    console,      \* what was logged, oldest first
    lastEvent,    \* the event-loop task that ran last
    lastClicked,  \* tab of the most recent tab click ("none" before any)
    calls,        \* loadCsvIntoTable calls made so far (most recent last)
    verdict,      \* last evaluation of the date-filter predicate
    rendered      \* last header or body cell turned into markup

vars == <<rev, pc, cur, pending, tbl, res, globalSearch, dateFrom, dateTo,
          tabActive, panelActive, extSearch, handlers, timers, console,
          lastEvent, lastClicked, calls, verdict, rendered>>

----------------------------------------------------------------------------
(* Bounds *)

MaxTimers == 2   \* pending zero-delay timeouts a tab click may add up to
MaxCalls == 2    \* direct loader calls explored by SpecLoader
MaxLen == 2      \* length of the cell values and URLs rendered by SpecRender

----------------------------------------------------------------------------
(* Strings as sequences of code units *)

Empty == <<>>

RECURSIVE StrLT(_, _)
\* JavaScript a < b on strings: lexicographic on code units, a proper prefix
\* is smaller.
StrLT(a, b) ==
    IF b = <<>> THEN FALSE
    ELSE IF a = <<>> THEN TRUE
    ELSE IF Head(a) # Head(b) THEN Head(a) < Head(b)
    ELSE StrLT(Tail(a), Tail(b))

StrGE(a, b) == ~StrLT(a, b)

StrLE(a, b) == ~StrLT(b, a)

Digit(n) == 48 + n

Pad2(n) == <<Digit(n \div 10), Digit(n % 10)>>

Pad4(n) == <<Digit(n \div 1000), Digit((n \div 100) % 10),
             Digit((n \div 10) % 10), Digit(n % 10)>>

\* The YYYY-MM-DD text of a calendar date (value format of <input type=date>
\* and of the hidden ISO helper cells).
Iso(y, m, d) == Pad4(y) \o <<45>> \o Pad2(m) \o <<45>> \o Pad2(d)

IsSpace(c) == c = 32

RECURSIVE TrimLeft(_)
TrimLeft(s) ==
    IF s = <<>> THEN s
    ELSE IF IsSpace(Head(s)) THEN TrimLeft(Tail(s))
    ELSE s

RECURSIVE TrimRight(_)
TrimRight(s) ==
    IF s = <<>> THEN s
    ELSE IF IsSpace(s[Len(s)]) THEN TrimRight(SubSeq(s, 1, Len(s) - 1))
    ELSE s

\* String.prototype.trim
Trim(s) == TrimRight(TrimLeft(s))

LowerChar(c) == IF c >= 65 /\ c <= 90 THEN c + 32 ELSE c

Lower(s) == [i \in 1..Len(s) |-> LowerChar(s[i])]

\* term occurs in text, ignoring case
Contains(text, term) ==
    \E i \in 0..(Len(text) - Len(term)) :
        Lower(SubSeq(text, i + 1, i + Len(term))) = Lower(term)

----------------------------------------------------------------------------
(* The page: two tables, two tabs, the CSV resources *)

Tables == {"toursTable", "festivalsTable"}

Tabs == {"tours", "festivals"}

Revs == {"dateFilter", "noDate"}

\* getActiveDT: the table of the tab carrying "active" (festivals only when
\* the first active tab's data-tab is "festivals", tours otherwise)
TableOfTab(tab) == IF tab = "festivals" THEN "festivalsTable" ELSE "toursTable"

\* dateColNameCandidates passed by init()
DateColCandidates(t) == IF t = "toursTable" THEN {"Date"} ELSE {"Dates"}

NameCol(t) == IF t = "toursTable" THEN "Tour Name" ELSE "Festival Name"

DateCol(t) == IF t = "toursTable" THEN "Date" ELSE "Dates"

\* Some cell texts: "Emo", " me", "6/20/2026", "x.io"
TxtEmo == <<69, 109, 111>>

TxtMe == <<32, 109, 101>>

TxtDate == <<54, 47, 50, 48, 47, 50, 48, 50, 54>>

TxtUrl == <<120, 46, 105, 111>>

FileNames == {"plain", "datedEmpty", "dated"}

\* What Papa.parse(csvText, {header: true, skipEmptyLines: true}) yields for
\* the resource: meta.fields and one sequence of cells per record.
CsvFile(t, name) ==
    CASE name = "plain" ->
           [cols |-> <<NameCol(t), "Source URL">>,
            data |-> <<<<TxtEmo, TxtUrl>>, <<TxtMe, Empty>>>>]
      [] name = "datedEmpty" ->
           [cols |-> <<NameCol(t), DateCol(t)>>, data |-> <<>>]
      [] OTHER ->
           [cols |-> <<NameCol(t), DateCol(t)>>, data |-> <<<<TxtEmo, TxtDate>>>>]

\* HTTP outcomes of fetch(csvPath); 0 stands for a rejected fetch (network
\* failure), which throws out of the await like the explicit check does.
HttpStatuses == {200, 404, 500, 0}

\* res.ok
ResponseOkAlways(status) == status # 0

ResponseOk(status) == status >= 200 /\ status <= 299

\* Array.prototype.indexOf, zero-based, -1 when absent
IndexOf(seq, x) ==
    IF \E i \in 1..Len(seq) : seq[i] = x
    THEN (CHOOSE i \in 1..Len(seq) : seq[i] = x /\ \A j \in 1..(i - 1) : seq[j] # x) - 1
    ELSE -1

\* rowData[idx] || "": reading outside the array yields undefined
Cell(rowData, idx) ==
    IF idx >= 0 /\ idx < Len(rowData) THEN rowData[idx + 1] ELSE Empty

----------------------------------------------------------------------------
(* The date-range filter predicate pushed on $.fn.dataTable.ext.search *)

WindowFloor == Iso(0, 1, 1)

WindowCeil == Iso(9999, 12, 31)

\* the variant that drops rows without a start date
elderEmoDateFilterFailClosed(tableId, rowData, from, to, tours, festivals) ==
    IF tableId # "toursTable" /\ tableId # "festivalsTable" THEN TRUE
    ELSE IF from = Empty /\ to = Empty THEN TRUE
    ELSE
      LET startIdx == IF tableId = "toursTable" THEN tours.startIdx ELSE festivals.startIdx
          endIdx == IF tableId = "toursTable" THEN tours.endIdx ELSE festivals.endIdx
      IN  IF startIdx = -1 \/ endIdx = -1 THEN TRUE
          ELSE
            LET startISO == Cell(rowData, startIdx)
                endISO == IF Cell(rowData, endIdx) # Empty
                          THEN Cell(rowData, endIdx) ELSE startISO
                windowStart == IF from # Empty THEN from ELSE WindowFloor
                windowEnd == IF to # Empty THEN to ELSE WindowCeil
            IN  IF startISO = Empty THEN FALSE
                ELSE StrGE(endISO, windowStart) /\ StrLE(startISO, windowEnd)

\* the variant that tests the row's start against the window's lower bound
elderEmoDateFilterStartOnly(tableId, rowData, from, to, tours, festivals) ==
    IF tableId # "toursTable" /\ tableId # "festivalsTable" THEN TRUE
    ELSE IF from = Empty /\ to = Empty THEN TRUE
    ELSE
      LET startIdx == IF tableId = "toursTable" THEN tours.startIdx ELSE festivals.startIdx
          endIdx == IF tableId = "toursTable" THEN tours.endIdx ELSE festivals.endIdx
      IN  IF startIdx = -1 \/ endIdx = -1 THEN TRUE
          ELSE
            LET startISO == Cell(rowData, startIdx)
                windowStart == IF from # Empty THEN from ELSE WindowFloor
                windowEnd == IF to # Empty THEN to ELSE WindowCeil
            IN  IF startISO = Empty THEN TRUE
                ELSE StrGE(startISO, windowStart) /\ StrLE(startISO, windowEnd)

\* the variant that reads the first table's helper columns for every table
elderEmoDateFilterFirstTable(tableId, rowData, from, to, tours, festivals) ==
    IF tableId # "toursTable" /\ tableId # "festivalsTable" THEN TRUE
    ELSE IF from = Empty /\ to = Empty THEN TRUE
    ELSE
      LET startIdx == tours.startIdx
          endIdx == tours.endIdx
      IN  IF startIdx = -1 \/ endIdx = -1 THEN TRUE
          ELSE
            LET startISO == Cell(rowData, startIdx)
                endISO == IF Cell(rowData, endIdx) # Empty
                          THEN Cell(rowData, endIdx) ELSE startISO
                windowStart == IF from # Empty THEN from ELSE WindowFloor
                windowEnd == IF to # Empty THEN to ELSE WindowCeil
            IN  IF startISO = Empty THEN TRUE
                ELSE StrGE(endISO, windowStart) /\ StrLE(startISO, windowEnd)

elderEmoDateFilter(tableId, rowData, from, to, tours, festivals) ==
    IF tableId # "toursTable" /\ tableId # "festivalsTable" THEN TRUE
    ELSE IF from = Empty /\ to = Empty THEN TRUE
    ELSE
      LET startIdx == IF tableId = "toursTable" THEN tours.startIdx ELSE festivals.startIdx
          endIdx == IF tableId = "toursTable" THEN tours.endIdx ELSE festivals.endIdx
      IN  IF startIdx = -1 \/ endIdx = -1 THEN TRUE
          ELSE
            LET startISO == Cell(rowData, startIdx)
                endISO == IF Cell(rowData, endIdx) # Empty
                          THEN Cell(rowData, endIdx) ELSE startISO
                windowStart == IF from # Empty THEN from ELSE WindowFloor
                windowEnd == IF to # Empty THEN to ELSE WindowCeil
            IN  IF startISO = Empty THEN TRUE
                ELSE StrGE(endISO, windowStart) /\ StrLE(startISO, windowEnd)

----------------------------------------------------------------------------
(* The DataTable widget as the script uses it *)

\* a table element with an empty thead and tbody and no widget on it
BlankTable ==
    [widgets |-> 0, thead |-> <<>>, tbody |-> <<>>, hidden |-> {},
     search |-> Empty, shown |-> {}, drawn |-> FALSE, adjusted |-> FALSE]

NoResult == [dt |-> FALSE, startIdx |-> -1, endIdx |-> -1]

\* the widget's global search: the term occurs in a searchable cell
RowMatches(tb, i, term) ==
    term = Empty
    \/ \E c \in 1..Len(tb.tbody[i]) :
          (c - 1) \notin tb.hidden /\ Contains(tb.tbody[i][c], term)

\* rows a draw of table t leaves displayed: the search term and, once
\* registered, the date predicate
ShownRows(tb, t, from, to, R, ext) ==
    {i \in 1..Len(tb.tbody) :
        /\ RowMatches(tb, i, tb.search)
        /\ (ext > 0 =>
              elderEmoDateFilter(t, tb.tbody[i], from, to,
                                 R["toursTable"], R["festivalsTable"]))}

\* dt.draw(); drawn records that the running task drew the table
Draw(T, t, from, to, R, ext) ==
    [T EXCEPT ![t].shown = ShownRows(T[t], t, from, to, R, ext),
              ![t].drawn = TRUE]

\* dt.columns.adjust(); adjusted records that the running task did it
Adjust(T, t) == [T EXCEPT ![t].adjusted = TRUE]

\* the tables as a new event-loop task finds them: nothing drawn or adjusted
\* by it yet
Rest(T) == [t \in Tables |-> [T[t] EXCEPT !.drawn = FALSE, !.adjusted = FALSE]]

\* dt.search(term).draw()
SearchDraw(T, t, term, from, to, R, ext) ==
    Draw([T EXCEPT ![t].search = term], t, from, to, R, ext)

----------------------------------------------------------------------------
(* loadCsvIntoTable *)

HasDateCol(t, file) ==
    \E i \in 1..Len(file.cols) : file.cols[i] \in DateColCandidates(t)

\* The date-filter revision calls toISO(start) for every data row of a CSV
\* that has its date column; the script defines no toISO, so the call
\* throws a ReferenceError out of loadCsvIntoTable.
ThrowsReferenceError(t, file) ==
    rev = "dateFilter" /\ HasDateCol(t, file) /\ Len(file.data) >= 1

\* allCols: the CSV's columns plus, in the date-filter revision, the two
\* helper columns when the date column exists
AllCols(t, file) ==
    IF rev = "dateFilter" /\ HasDateCol(t, file)
    THEN file.cols \o <<"__startISO", "__endISO">>
    ELSE file.cols

\* columnDefs with visible: false, searchable: false (zero-based indexes)
HiddenCols(t, file) ==
    LET all == AllCols(t, file)
        src == IndexOf(all, "Source URL")
        s == IndexOf(all, "__startISO")
        e == IndexOf(all, "__endISO")
    IN  (IF src # -1 THEN {src} ELSE {})
        \cup (IF s # -1 /\ e # -1 THEN {s, e} ELSE {})

\* a rebuild that leaves the previous widget instance in place
DestroyPriorSkipped(w) == w

\* if ($.fn.DataTable.isDataTable($table)) $table.DataTable().destroy(true)
DestroyPrior(w) ==
    IF w.widgets > 0 THEN [w EXCEPT !.widgets = 0, !.search = Empty, !.shown = {}]
    ELSE w

\* From "Build table DOM" to the DataTable constructor (with its first draw)
LoadRender(w, t, file) ==
    LET d == DestroyPrior(w)
        all == AllCols(t, file)
        built == [d EXCEPT
                    !.thead = <<all>>,
                    !.tbody = [i \in 1..Len(file.data) |->
                                 [c \in 1..Len(all) |-> Cell(file.data[i], c - 1)]],
                    !.hidden = HiddenCols(t, file),
                    !.widgets = d.widgets + 1,
                    !.search = Empty]
    IN  [built EXCEPT !.shown =
            ShownRows(built, t, dateFrom, dateTo, res, extSearch),
                      !.drawn = TRUE]

\* the object the loader returns
LoadResult(t, file) ==
    IF rev = "dateFilter"
    THEN [dt |-> TRUE,
          startIdx |-> IndexOf(AllCols(t, file), "__startISO"),
          endIdx |-> IndexOf(AllCols(t, file), "__endISO")]
    ELSE [dt |-> TRUE, startIdx |-> -1, endIdx |-> -1]

\* setTimeout(fn, 0) without the call
ScheduleDropped(q, entry) == q

\* setTimeout(fn, 0)
Schedule(q, entry) == Append(q, entry)

\* initComplete of the no-date revision queues an adjust + draw
AfterInitComplete(q, t) ==
    IF rev = "noDate" THEN Schedule(q, [kind |-> "initComplete", table |-> t])
    ELSE q

CallRecord(t, name, status, outcome, after) ==
    [table |-> t, file |-> name, status |-> status, outcome |-> outcome,
     after |-> after]

----------------------------------------------------------------------------
(* Escaping and the markup of one header or body cell *)

RECURSIVE ReplaceAll(_, _, _)
\* s.replace(/c/g, r)
ReplaceAll(s, c, r) ==
    IF s = <<>> THEN <<>>
    ELSE (IF Head(s) = c THEN r ELSE <<Head(s)>>) \o ReplaceAll(Tail(s), c, r)

\* "&amp;", "&lt;", "&gt;", "&quot;"
EntAmp == <<38, 97, 109, 112, 59>>

EntLt == <<38, 108, 116, 59>>

EntGt == <<38, 103, 116, 59>>

EntQuot == <<38, 113, 117, 111, 116, 59>>

\* escHtml: & first, then <, then >
escHtml(s) == ReplaceAll(ReplaceAll(ReplaceAll(s, 38, EntAmp), 60, EntLt), 62, EntGt)

\* escAttr: & first, then ", then <
escAttr(s) == ReplaceAll(ReplaceAll(ReplaceAll(s, 38, EntAmp), 34, EntQuot), 60, EntLt)

\* a piece of markup: literal template text, or data placed in element
\* content ("text") or in a double-quoted attribute value ("attr")
Lit(name) == [ctx |-> "lit", lit |-> name, s |-> Empty]

Data(ctx, s) == [ctx |-> ctx, lit |-> "", s |-> s]

\* `<th>${escHtml(c)}</th>`
RenderHeader(c) == <<Lit("<th>"), Data("text", escHtml(c)), Lit("</th>")>>

\* one <td>: the name column becomes a link when the row's Source URL is
\* non-blank, every other column is plain escaped text
RenderCell(isNameCol, rawVal, url) ==
    LET val == escHtml(rawVal)
        hasUrl == url # Empty /\ Trim(url) # Empty
    IN  IF isNameCol /\ hasUrl
        THEN <<Lit("<td class=name><a href=\""), Data("attr", escAttr(url)),
               Lit("\" target=_blank rel=noopener>"), Data("text", val),
               Lit("</a></td>")>>
        ELSE IF isNameCol
        THEN <<Lit("<td class=name>"), Data("text", val), Lit("</td>")>>
        ELSE <<Lit("<td>"), Data("text", val), Lit("</td>")>>

NoMarkup ==
    [done |-> FALSE, kind |-> "none", value |-> Empty, url |-> Empty, markup |-> <<>>]

----------------------------------------------------------------------------
(* init(): two awaited loads in one try block, then the handlers *)

NoVerdict ==
    [evaluated |-> FALSE, table |-> "none", row |-> <<>>, from |-> Empty,
     to |-> Empty, tours |-> NoResult, festivals |-> NoResult, pass |-> TRUE]

\* The script has run up to its first await: the tours fetch is in flight and
\* "app.js loaded" is logged. The page's markup shows the tours tab and panel.
Init ==
    /\ rev \in Revs
    /\ pc = "fetch"
    /\ cur = "toursTable"
    /\ pending = [file |-> "none", status |-> 0]
    /\ tbl = [t \in Tables |-> BlankTable]
    /\ res = [t \in Tables |-> NoResult]
    /\ globalSearch = Empty
    /\ dateFrom = Empty
    /\ dateTo = Empty
    /\ tabActive = {"tours"}
    /\ panelActive = {"tours"}
    /\ extSearch = 0
    /\ handlers = FALSE
    /\ timers = <<>>
    /\ console = <<"app.js loaded">>
    /\ lastEvent = "script"
    /\ lastClicked = "none"
    /\ calls = <<>>
    /\ verdict = NoVerdict
    /\ rendered = NoMarkup

\* ext.search = ext.search.filter(fn => !fn.__elderEmoDateFilter), then
\* push(elderEmoDateFilter): n counts the entries carrying the marker
RegisterDateFilter(n) == (n - n) + 1

\* catch (err) { console.error("init failed:", err) }
InitCatches(status, name) ==
    /\ pc' = "failed"
    /\ console' = Append(console, "init failed")
    /\ tbl' = Rest(tbl)
    /\ calls' = Append(calls, CallRecord(cur, name, status, "threw", tbl'[cur]))
    /\ UNCHANGED <<cur, res, extSearch, handlers, timers>>

\* await fetch(csvPath) settles; a response that is not ok makes the loader throw
FetchSettles ==
    /\ pc = "fetch"
    /\ \E status \in HttpStatuses :
         IF ResponseOk(status)
         THEN /\ \E name \in FileNames : pending' = [file |-> name, status |-> status]
              /\ pc' = "text"
              /\ tbl' = Rest(tbl)
              /\ UNCHANGED <<cur, res, extSearch, handlers, timers, console, calls>>
         ELSE /\ InitCatches(status, "none")
              /\ UNCHANGED pending
    /\ lastEvent' = "fetch"
    /\ UNCHANGED <<rev, globalSearch, dateFrom, dateTo, tabActive, panelActive,
                   lastClicked, verdict, rendered>>

\* await res.text() settles: the rest of the loader runs, then init() goes on
\* to the next load or attaches the handlers
TextSettles ==
    /\ pc = "text"
    /\ LET file == CsvFile(cur, pending.file)
       IN  IF ThrowsReferenceError(cur, file)
           THEN InitCatches(pending.status, pending.file)
           ELSE /\ tbl' = [Rest(tbl) EXCEPT ![cur] = LoadRender(Rest(tbl)[cur], cur, file)]
                /\ res' = [res EXCEPT ![cur] = LoadResult(cur, file)]
                /\ timers' = AfterInitComplete(timers, cur)
                /\ calls' = Append(calls, CallRecord(cur, pending.file, pending.status,
                                                     "returned", tbl'[cur]))
                /\ IF cur = "toursTable"
                   THEN /\ cur' = "festivalsTable"
                        /\ pc' = "fetch"
                        /\ UNCHANGED <<extSearch, handlers, console>>
                   ELSE /\ pc' = "ready"
                        /\ handlers' = TRUE
                        /\ extSearch' = IF rev = "dateFilter"
                                        THEN RegisterDateFilter(extSearch)
                                        ELSE extSearch
                        /\ console' = Append(console, "tables initialized")
                        /\ UNCHANGED cur
    /\ lastEvent' = "text"
    /\ UNCHANGED <<rev, pending, globalSearch, dateFrom, dateTo, tabActive,
                   panelActive, lastClicked, verdict, rendered>>

----------------------------------------------------------------------------
(* Event handlers attached by init() *)

\* "emo", " me " as typed into the search box
TxtSearchEmo == <<101, 109, 111>>

TxtSearchMe == <<32, 109, 101, 32>>

SearchTexts == {Empty, TxtSearchEmo, TxtSearchMe}

FromInputs == {Empty, Iso(2026, 6, 1)}

ToInputs == {Empty, Iso(2026, 6, 30)}

\* $(".tab.active").data("tab"): the data of the first matched tab
ActiveTabData ==
    IF "tours" \in tabActive THEN "tours"
    ELSE IF "festivals" \in tabActive THEN "festivals"
    ELSE "undefined"

\* getActiveDT(tours, festivals)
getActiveDT == TableOfTab(ActiveTabData)

\* the term the input handler applies: trimmed in the no-date revision only
InputTerm(value) == IF rev = "noDate" THEN Trim(value) ELSE value

\* $("#globalSearch").on("input", ...)
SearchInput ==
    /\ handlers
    /\ \E v \in SearchTexts :
         /\ v # globalSearch
         /\ globalSearch' = v
         /\ tbl' = SearchDraw(Rest(tbl), getActiveDT, InputTerm(v), dateFrom, dateTo,
                              res, extSearch)
    /\ lastEvent' = "search"
    /\ UNCHANGED <<rev, pc, cur, pending, res, dateFrom, dateTo, tabActive,
                   panelActive, extSearch, handlers, timers, console, lastClicked,
                   calls, verdict, rendered>>

\* a change handler that redraws the active table only
DateChangeDrawsActiveOnly(T, from, to) ==
    Draw(T, getActiveDT, from, to, res, extSearch)

\* tours.dt.draw(); festivals.dt.draw();
DateChangeDraws(T, from, to) ==
    Draw(Draw(T, "toursTable", from, to, res, extSearch),
         "festivalsTable", from, to, res, extSearch)

\* $("#dateFrom, #dateTo").on("change", ...): date-filter revision only
DateChange ==
    /\ handlers
    /\ rev = "dateFilter"
    /\ \/ \E v \in FromInputs : v # dateFrom /\ dateFrom' = v /\ dateTo' = dateTo
       \/ \E v \in ToInputs : v # dateTo /\ dateTo' = v /\ dateFrom' = dateFrom
    /\ tbl' = DateChangeDraws(Rest(tbl), dateFrom', dateTo')
    /\ lastEvent' = "date"
    /\ UNCHANGED <<rev, pc, cur, pending, res, globalSearch, tabActive, panelActive,
                   extSearch, handlers, timers, console, lastClicked, calls, verdict, rendered>>

\* a clear that resets the search of the active table only
ClearSearchesActiveOnly(T, from, to) ==
    SearchDraw(T, getActiveDT, Empty, from, to, res, extSearch)

\* tours.dt.search("").draw(); festivals.dt.search("").draw();
ClearSearches(T, from, to) ==
    SearchDraw(SearchDraw(T, "toursTable", Empty, from, to, res, extSearch),
               "festivalsTable", Empty, from, to, res, extSearch)

\* $("#clearFilters").on("click", ...): the inputs are emptied first. The
\* no-date revision empties the search box only; its page has no date
\* filtering, so its date inputs are never set (see DateChange).
ClearClick ==
    /\ handlers
    /\ globalSearch' = Empty
    /\ IF rev = "dateFilter"
       THEN dateFrom' = Empty /\ dateTo' = Empty
       ELSE UNCHANGED <<dateFrom, dateTo>>
    /\ tbl' = ClearSearches(Rest(tbl), dateFrom', dateTo')
    /\ lastEvent' = "clear"
    /\ UNCHANGED <<rev, pc, cur, pending, res, tabActive, panelActive, extSearch,
                   handlers, timers, console, lastClicked, calls, verdict, rendered>>

\* adding the class without removing it from the other element
ActivateAlso(active, tab) == active \cup {tab}

\* $(".tab").removeClass("active"); $(this).addClass("active");  (same for
\* the panels)
ActivateOnly(active, tab) == {tab}

\* the draw that ends the tab click handler: the date-filter revision draws
\* the newly active table, the no-date revision re-applies the box's term
TabDraw(T) ==
    IF rev = "dateFilter"
    THEN Draw(T, TableOfTab(ActiveTabData'), dateFrom, dateTo, res, extSearch)
    ELSE SearchDraw(T, TableOfTab(ActiveTabData'), Trim(globalSearch), dateFrom,
                    dateTo, res, extSearch)

\* $(".tab").on("click", ...)
TabClick ==
    /\ handlers
    /\ Len(timers) < MaxTimers
    /\ \E tab \in Tabs :
         /\ tabActive' = ActivateOnly(tabActive, tab)
         /\ panelActive' = ActivateOnly(panelActive, tab)
         /\ lastClicked' = tab
    /\ timers' = Schedule(timers, [kind |-> "tabAdjust", table |-> "visible"])
    /\ tbl' = TabDraw(Rest(tbl))
    /\ lastEvent' = "tab"
    /\ UNCHANGED <<rev, pc, cur, pending, res, globalSearch, dateFrom, dateTo,
                   extSearch, handlers, console, calls, verdict, rendered>>

\* tables the tab click's timeout adjusts: the date-filter revision asks for
\* the visible DataTables, the no-date revision adjusts both
TabAdjustTargets ==
    IF rev = "dateFilter"
    THEN {t \in Tables : tbl[t].widgets > 0 /\ \E p \in panelActive : TableOfTab(p) = t}
    ELSE Tables

RECURSIVE AdjustAll(_, _)
AdjustAll(T, S) ==
    IF S = {} THEN T
    ELSE LET t == CHOOSE x \in S : TRUE IN AdjustAll(Adjust(T, t), S \ {t})

\* a zero-delay timeout fires: the oldest queued callback runs as its own task
RunTimer ==
    /\ timers # <<>>
    /\ timers' = Tail(timers)
    /\ IF Head(timers).kind = "initComplete"
       THEN tbl' = Draw(Adjust(Rest(tbl), Head(timers).table), Head(timers).table,
                        dateFrom, dateTo, res, extSearch)
       ELSE tbl' = AdjustAll(Rest(tbl), TabAdjustTargets)
    /\ lastEvent' = "timer"
    /\ UNCHANGED <<rev, pc, cur, pending, res, globalSearch, dateFrom, dateTo,
                   tabActive, panelActive, extSearch, handlers, console, lastClicked,
                   calls, verdict, rendered>>

\* the window is resized: neither revision registers a resize listener
Resize ==
    /\ lastEvent' = "resize"
    /\ tbl' = Rest(tbl)
    /\ UNCHANGED <<rev, pc, cur, pending, res, globalSearch, dateFrom, dateTo,
                   tabActive, panelActive, extSearch, handlers, timers, console,
                   lastClicked, calls, verdict, rendered>>

Next ==
    \/ FetchSettles
    \/ TextSettles
    \/ SearchInput
    \/ DateChange
    \/ ClearClick
    \/ TabClick
    \/ RunTimer
    \/ Resize

Spec == Init /\ [][Next]_vars

\* setTimeout callbacks are run by the event loop
FairSpec == Spec /\ WF_vars(RunTimer)

lastDrawn == {t \in Tables : tbl[t].drawn}

lastAdjusted == {t \in Tables : tbl[t].adjusted}

----------------------------------------------------------------------------
(* The loader called directly, any number of times on any table *)

LoaderCall ==
    /\ Len(calls) < MaxCalls
    /\ \E t \in Tables, status \in HttpStatuses, name \in FileNames :
         LET file == CsvFile(t, name)
         IN  IF ~ResponseOk(status) \/ ThrowsReferenceError(t, file)
             THEN /\ tbl' = Rest(tbl)
                  /\ calls' = Append(calls, CallRecord(t, name, status, "threw", tbl'[t]))
                  /\ UNCHANGED <<res, timers>>
             ELSE /\ tbl' = [Rest(tbl) EXCEPT ![t] = LoadRender(Rest(tbl)[t], t, file)]
                  /\ res' = [res EXCEPT ![t] = LoadResult(t, file)]
                  /\ timers' = AfterInitComplete(timers, t)
                  /\ calls' = Append(calls, CallRecord(t, name, status, "returned",
                                                       tbl'[t]))
    /\ lastEvent' = "load"
    /\ UNCHANGED <<rev, pc, cur, pending, globalSearch, dateFrom, dateTo, tabActive,
                   panelActive, extSearch, handlers, console, lastClicked, verdict, rendered>>

SpecLoader == Init /\ [][LoaderCall]_vars

----------------------------------------------------------------------------
(* The date-filter predicate applied to rows of loaded tables *)

RowDates ==
    {Empty, Iso(2025, 12, 31), Iso(2026, 5, 31), Iso(2026, 6, 1), Iso(2026, 6, 20),
     Iso(2026, 6, 30), Iso(2026, 7, 1)}

\* rowData as the widget hands it to the predicate: one string per column
FilterRows ==
    {<<TxtEmo, TxtDate, s, e>> : s \in RowDates, e \in RowDates}
    \cup {<<TxtEmo, TxtUrl>>}

FilterBounds == FromInputs \cup ToInputs

\* what loadCsvIntoTable can return for a table
LoaderResults(t) == {LoadResult(t, CsvFile(t, name)) : name \in FileNames}

FilterInit == Init /\ rev = "dateFilter"

\* one evaluation per behaviour: evaluations do not depend on one another
EvalFilter ==
    /\ ~verdict.evaluated
    /\ \E t \in Tables, row \in FilterRows, from \in FilterBounds, to \in FilterBounds,
          rt \in LoaderResults("toursTable"), rf \in LoaderResults("festivalsTable") :
         verdict' = [evaluated |-> TRUE, table |-> t, row |-> row, from |-> from,
                     to |-> to, tours |-> rt, festivals |-> rf,
                     pass |-> elderEmoDateFilter(t, row, from, to, rt, rf)]
    /\ lastEvent' = "filter"
    /\ UNCHANGED <<rev, pc, cur, pending, tbl, res, globalSearch, dateFrom, dateTo,
                   tabActive, panelActive, extSearch, handlers, timers, console,
                   lastClicked, calls, rendered>>

SpecFilter == FilterInit /\ [][EvalFilter]_vars

----------------------------------------------------------------------------
(* The predicate registered on ext.search, then applied by the widget *)

\* the registration block of init(); it is written to be safe to run again
RegisterFilter ==
    /\ rev = "dateFilter"
    /\ extSearch' = RegisterDateFilter(extSearch)
    /\ lastEvent' = "register"
    /\ UNCHANGED <<pc, cur, pending, tbl, res, globalSearch, dateFrom, dateTo,
                   tabActive, panelActive, handlers, timers, console, lastClicked,
                   calls, verdict, rendered, rev>>

\* the widget calls the predicates found on ext.search
EvalRegistered == extSearch > 0 /\ EvalFilter

SpecRegistered == FilterInit /\ [][RegisterFilter \/ EvalRegistered]_vars

----------------------------------------------------------------------------
(* The renderer applied to one header or one body cell *)

\* & < > " a and the space
RenderAlphabet == {38, 60, 62, 34, 97, 32}

RenderValues == UNION {[1..k -> RenderAlphabet] : k \in 0..MaxLen}

\* one rendering per behaviour: renderings do not depend on one another
RenderOne ==
    /\ ~rendered.done
    /\ \/ \E c \in RenderValues :
            rendered' = [done |-> TRUE, kind |-> "th", value |-> c, url |-> Empty,
                         markup |-> RenderHeader(c)]
       \/ \E v \in RenderValues :
            rendered' = [done |-> TRUE, kind |-> "td", value |-> v, url |-> Empty,
                         markup |-> RenderCell(FALSE, v, Empty)]
       \/ \E v \in RenderValues, u \in RenderValues :
            rendered' = [done |-> TRUE, kind |-> "name", value |-> v, url |-> u,
                         markup |-> RenderCell(TRUE, v, u)]
    /\ lastEvent' = "render"
    /\ UNCHANGED <<rev, pc, cur, pending, tbl, res, globalSearch, dateFrom, dateTo,
                   tabActive, panelActive, extSearch, handlers, timers, console,
                   lastClicked, calls, verdict>>

SpecRender == Init /\ [][RenderOne]_vars

----------------------------------------------------------------------------
(* Properties *)

\* the calendar day a YYYY-MM-DD text denotes, as a number that orders days
DayNum(iso) ==
    LET v(i) == iso[i] - 48
    IN  (v(1) * 1000 + v(2) * 100 + v(3) * 10 + v(4)) * 10000
        + (v(6) * 10 + v(7)) * 100
        + (v(9) * 10 + v(10))

VerdictStartIdx ==
    IF verdict.table = "toursTable" THEN verdict.tours.startIdx
    ELSE verdict.festivals.startIdx

VerdictEndIdx ==
    IF verdict.table = "toursTable" THEN verdict.tours.endIdx
    ELSE verdict.festivals.endIdx

\* the derived start and end of the evaluated row ("" when absent)
VerdictStart == Cell(verdict.row, VerdictStartIdx)

VerdictEnd == Cell(verdict.row, VerdictEndIdx)

C2_Overlap ==
    (verdict.evaluated /\ VerdictStart # Empty) =>
        LET rowStart == DayNum(VerdictStart)
            rowEnd == IF VerdictEnd # Empty THEN DayNum(VerdictEnd) ELSE rowStart
        IN  verdict.pass <=>
              /\ (verdict.from = Empty \/ rowEnd >= DayNum(verdict.from))
              /\ (verdict.to = Empty \/ rowStart <= DayNum(verdict.to))

C2_Witness ==
    /\ verdict.evaluated
    /\ VerdictStart # Empty
    /\ VerdictEnd # Empty
    /\ verdict.from # Empty
    /\ verdict.to = Empty
    /\ DayNum(VerdictStart) < DayNum(verdict.from)
    /\ DayNum(VerdictEnd) >= DayNum(verdict.from)
    /\ verdict.pass

LoadThrew(t) ==
    \E i \in 1..Len(calls) : calls[i].table = t /\ calls[i].outcome = "threw"

\* C3: when init() has ended with one table's load failed, the other table
\* is rendered with its widget, whichever of the two failed.
C3_LoadsIsolated ==
    pc = "failed" =>
        \A t \in Tables : ~LoadThrew(t) => (tbl[t].widgets = 1 /\ Len(tbl[t].thead) = 1)

C5_OneActiveTab ==
    /\ [](lastClicked # "none" =>
            /\ Cardinality(tabActive) = 1
            /\ Cardinality(panelActive) = 1
            /\ tabActive = {lastClicked}
            /\ panelActive = {lastClicked})
    /\ [][(tabActive' # tabActive \/ panelActive' # panelActive)
            => lastEvent' = "tab"]_vars
    /\ [][lastEvent' \in {"search", "date", "clear"}
            => (tabActive' = tabActive /\ panelActive' = panelActive)]_vars

C5_Witness ==
    /\ lastClicked = "tours"
    /\ lastEvent = "clear"
    /\ tabActive = {"tours"}
    /\ panelActive = {"tours"}
    /\ timers # <<>>


VisibleTables == {TableOfTab(p) : p \in panelActive}

C7_ResizeSchedulesAdjust ==
    [][(Resize /\ handlers) => Len(timers') = Len(timers) + 1]_vars

HasRaw(s, c) == \E i \in 1..Len(s) : s[i] = c

\* every & of s opens one of the four entities
AmpersandsEscaped(s) ==
    \A i \in 1..Len(s) :
        s[i] = 38 =>
            \E e \in {EntAmp, EntLt, EntGt, EntQuot} :
                /\ i + Len(e) - 1 <= Len(s)
                /\ SubSeq(s, i, i + Len(e) - 1) = e

\* C11: in the markup of every header and body cell, data placed as text
\* carries no raw '<' or '>' and no '&' outside an entity; a Source URL placed
\* in an href carries no raw double quote, no raw '<', no raw '>' and no '&'
\* outside an entity.
C11_DataEscaped ==
    rendered.done =>
        \A i \in 1..Len(rendered.markup) :
            LET seg == rendered.markup[i]
            IN  /\ seg.ctx = "text" =>
                      /\ ~HasRaw(seg.s, 60)
                      /\ ~HasRaw(seg.s, 62)
                      /\ AmpersandsEscaped(seg.s)
                /\ seg.ctx = "attr" =>
                      /\ ~HasRaw(seg.s, 34)
                      /\ ~HasRaw(seg.s, 60)
                      /\ ~HasRaw(seg.s, 62)
                      /\ AmpersandsEscaped(seg.s)


\* C12: after a search input, a clear or a tab click, the search term applied
\* to the active table is the content of the search box (compared up to
\* surrounding blanks, which only one revision trims before applying).
C12_ActiveTermIsBox ==
    (handlers /\ lastEvent \in {"search", "clear", "tab"}) =>
        Trim(tbl[getActiveDT].search) = Trim(globalSearch)


\* the CSV the call fetched arrived with a 2xx status and has its date column
\* and at least one data row
GoodDatedLoad(call) ==
    /\ call.status >= 200
    /\ call.status <= 299
    /\ HasDateCol(call.table, CsvFile(call.table, call.file))
    /\ Len(CsvFile(call.table, call.file).data) >= 1

\* C13: in the date-filter revision, while every load so far fetched such a
\* CSV, no step of the load path has failed: init() is not in its catch
\* block and every finished load rendered its table with one widget.
C13_InitCompletes ==
    (rev = "dateFilter" /\ \A i \in 1..Len(calls) : GoodDatedLoad(calls[i])) =>
        /\ pc # "failed"
        /\ \A i \in 1..Len(calls) :
              /\ calls[i].outcome = "returned"
              /\ tbl[calls[i].table].widgets = 1


====
